---- MODULE Spec2Model ----
(***************************************************************************)
(* Model of src/src/components/Dashboard.tsx: the TimeCard view (schedule  *)
(* selector and countdown), the Dashboard view (incident statistics and    *)
(* its push channel) and the VenueOccupancy view (attendance count and its *)
(* keyed push channel).                                                    *)
(*                                                                         *)
(* A nullable value is a sequence of length 0 (null) or 1.  A read against *)
(* the backend is two steps: the server evaluates the query on the rows it *)
(* holds at that moment, and later the response reaches the awaiting code. *)
(***************************************************************************)
EXTENDS Integers, Sequences, FiniteSets, TLC

None == <<>>
Some(x) == <<x>>

Min2(a, b) == IF a <= b THEN a ELSE b

(***************************************************************************)
(* TimeCard                                                                *)
(***************************************************************************)

\* A time column is unset (<<>>) or "HH:MM:SS", kept as <<HH, MM, SS>>.
Unset == <<>>
TimeStrings == { <<18, 0, 0>>, <<20, 0, 0>>, <<23, 0, 0>> }
TimeFields == TimeStrings \cup {Unset}

\* The six columns in the order the code lists them.
FieldCount == 6
EventName == "Main Act"
FieldTitles ==
    << "Security Call", "Doors Open", EventName,
       "Show Stop Meeting", "Show Down", "Curfew" >>

\* An event row as fetchEventTimings selects it: the six times, listed in the
\* order of FieldTitles.
ScheduleRows == [1..FieldCount -> TimeFields]
CountdownRows ==
    { << Unset, Unset, t, Unset, Unset, Unset >> :
        t \in { <<0, 0, 0>>, <<20, 0, 0>>, <<23, 59, 0>> } }

\* new Date(): the local wall clock, to the millisecond.
Instant(h, m, s, ms) == [h |-> h, m |-> m, s |-> s, ms |-> ms]
Instants ==
    [h : {0, 19, 20, 23}, m : {0, 59}, s : {0, 1, 30, 59}, ms : {0, 500}]
SelectorNows ==
    { Instant(17, 59, 30, 0), Instant(18, 0, 0, 500), Instant(19, 0, 0, 0),
      Instant(20, 0, 59, 500), Instant(22, 59, 59, 0), Instant(23, 0, 0, 0) }

MaxTimingReads == 1

VARIABLES
    tcEvent,          \* backend: the row flagged is_current, None or Some(row)
    tcPhase,          \* "rendered" (effects not run yet), "mounted", "unmounted"
    tcReads,          \* fetchEventTimings calls awaiting their read
    currentTime,      \* useState<string>: the clock text, kept as <<HH, MM, SS>>
    eventTimings,     \* useState<EventTiming[]>
    nextEvent,        \* useState<EventTiming | null>
    countdown,        \* useState<string>
    clockTimer,       \* the interval of the clock effect is active
    refreshTimer,     \* the interval of the schedule effect is active
    countdownTimers,  \* the active countdown intervals: the entry each closes over
    selRow,           \* history: the row the stored eventTimings were computed from
    selNow,           \* history: the clock read by that computation
    cdInput,          \* history: the time and the clock the stored countdown was computed from
    tcLateFire,       \* history: a timer callback ran after the view was unmounted
    tcReplaced        \* history: a countdown interval was cleared and another started

tcVars ==
    << tcEvent, tcPhase, tcReads, currentTime, eventTimings, nextEvent, countdown,
       clockTimer, refreshTimer, countdownTimers, selRow, selNow, cdInput, tcLateFire,
       tcReplaced >>

tcTimers == << clockTimer, refreshTimer, countdownTimers >>
tcHistory == << selRow, selNow, cdInput >>

\* timing.time.split(':').map(Number), then hours * 60 + minutes
MinutesSinceMidnight(time) == time[1] * 60 + time[2]

\* now.getHours() * 60 + now.getMinutes()
CurrentTimeNumber(now) == now.h * 60 + now.m

\* The literal array of six { title, time }, then .filter(timing => timing.time)
SetTimings(row) ==
    LET all == [i \in 1..FieldCount |-> [title |-> FieldTitles[i], time |-> row[i]]]
    IN  SelectSeq(all, LAMBDA t : t.time # Unset)

\* .map(timing => ({ ...timing, minutesSinceMidnight }))
TimingsWithMinutes(ts) ==
    [i \in 1..Len(ts) |->
        [title |-> ts[i].title, time |-> ts[i].time,
         minutesSinceMidnight |-> MinutesSinceMidnight(ts[i].time)]]

FutureFilter_AtOrAfter(ts, current) ==
    SelectSeq(ts, LAMBDA t : t.minutesSinceMidnight >= current)

\* .filter(t => t.minutesSinceMidnight > currentTimeNumber)
FutureFilter(ts, current) ==
    SelectSeq(ts, LAMBDA t : t.minutesSinceMidnight > current)

RECURSIVE InsertBefore(_, _)
InsertBefore(x, sorted) ==
    IF sorted = <<>> THEN <<x>>
    ELSE IF x.minutesSinceMidnight - Head(sorted).minutesSinceMidnight <= 0
         THEN <<x>> \o sorted
         ELSE <<Head(sorted)>> \o InsertBefore(x, Tail(sorted))

RECURSIVE SortByMinutes_TiesReversed(_)
SortByMinutes_TiesReversed(ts) ==
    IF ts = <<>> THEN <<>>
    ELSE InsertBefore(ts[Len(ts)], SortByMinutes_TiesReversed(SubSeq(ts, 1, Len(ts) - 1)))

RECURSIVE InsertStable(_, _)
\* One step of a stable sort under (a, b) => a.minutesSinceMidnight -
\* b.minutesSinceMidnight: x goes after every element that does not compare greater.
InsertStable(x, sorted) ==
    IF sorted = <<>> THEN <<x>>
    ELSE IF x.minutesSinceMidnight - Head(sorted).minutesSinceMidnight < 0
         THEN <<x>> \o sorted
         ELSE <<Head(sorted)>> \o InsertStable(x, Tail(sorted))

RECURSIVE SortByMinutes(_)
\* .sort((a, b) => a.minutesSinceMidnight - b.minutesSinceMidnight); Array sort is stable
SortByMinutes(ts) ==
    IF ts = <<>> THEN <<>>
    ELSE InsertStable(ts[Len(ts)], SortByMinutes(SubSeq(ts, 1, Len(ts) - 1)))

SliceLimit == 3

\* futureTimings.slice(0, 3).map((timing, index) => ({ title, time, isNext: index === 0 }))
NextThreeTimings(row, now) ==
    LET future == SortByMinutes(
                      FutureFilter(TimingsWithMinutes(SetTimings(row)),
                                   CurrentTimeNumber(now)))
    IN  [i \in 1..Min2(SliceLimit, Len(future)) |->
            [title |-> future[i].title, time |-> future[i].time, isNext |-> (i = 1)]]

\* nextThreeTimings[0] || null
FirstOrNull(ts) == IF ts = <<>> THEN None ELSE Some(ts[1])

MsPerSecond == 1000
MsPerMinute == 60000
MsPerHour == 3600000
MsPerDay == 86400000

\* Date.getTime(), counted from the local midnight that starts today
GetTime(d) == ((d.h * 60 + d.m) * 60 + d.s) * MsPerSecond + d.ms

\* eventTime = new Date(now); eventTime.setHours(hours, minutes, 0): the
\* milliseconds argument is omitted, so eventTime keeps now's milliseconds.
SetHours(now, hours, minutes) == [h |-> hours, m |-> minutes, s |-> 0, ms |-> now.ms]

\* if (eventTime < now) eventTime.setDate(eventTime.getDate() + 1)
EventTimeMs(time, now) ==
    LET eventTime == GetTime(SetHours(now, time[1], time[2]))
    IN  IF eventTime < GetTime(now) THEN eventTime + MsPerDay ELSE eventTime

\* hours_remaining, minutes_remaining, seconds_remaining
RemainingParts(diff) ==
    [hours   |-> diff \div MsPerHour,
     minutes |-> (diff % MsPerHour) \div MsPerMinute,
     seconds |-> (diff % MsPerMinute) \div MsPerSecond]

\* `${hours_remaining}h ${minutes_remaining}m ${seconds_remaining}s`
FormatCountdown(p) ==
    ToString(p.hours) \o "h " \o ToString(p.minutes) \o "m " \o ToString(p.seconds) \o "s"

calculateCountdown(time, now) ==
    FormatCountdown(RemainingParts(EventTimeMs(time, now) - GetTime(now)))

\* new Date().toLocaleTimeString('en-GB'): "HH:MM:SS"
ToLocaleTimeString(now) == << now.h, now.m, now.s >>

\* The clock reading of the one-second clock timer
ClockNows == { Instant(20, 0, 0, 500) }

\* The countdown effect reads the clock when it runs, at or after the instant
\* fetchEventTimings read it.
EffectNows(now) == { now, [now EXCEPT !.ms = 500] }

ClearInterval_Noop(timers) == timers

\* return () => clearInterval(countdownTimer): the interval of the run is cleared
ClearInterval(timers) ==
    IF timers = <<>> THEN <<>> ELSE SubSeq(timers, 1, Len(timers) - 1)

CountdownEffect_KeepsPrevious(timers, prev, next) ==
    IF next = None THEN timers ELSE Append(timers, next[1].time)

\* useEffect(..., [nextEvent]) when nextEvent goes from prev to next: the
\* destructor of the previous run (it returned one when prev was not null),
\* then if (!nextEvent) return; else setInterval(...) for the new entry.
CountdownEffect(timers, prev, next) ==
    LET cleared == IF prev = None THEN timers ELSE ClearInterval(timers)
    IN  IF next = None THEN cleared ELSE Append(cleared, next[1].time)

\* A callback of a timer of this view runs
TimerFires == tcLateFire' = (tcLateFire \/ tcPhase = "unmounted")

\* The three effects on mount: the clock interval is started; the countdown
\* effect returns at once (nextEvent is null); fetchEventTimings() is called and
\* suspends on its read, and the one-minute refresh interval is started.
TimeCardMount ==
    /\ tcPhase = "rendered"
    /\ tcPhase' = "mounted"
    /\ clockTimer' = TRUE
    /\ countdownTimers' = CountdownEffect(countdownTimers, None, nextEvent)
    /\ tcReads' = Append(tcReads, [answered |-> FALSE, data |-> None])
    /\ refreshTimer' = TRUE
    /\ UNCHANGED << tcEvent, currentTime, eventTimings, nextEvent, countdown, tcHistory,
                    tcLateFire, tcReplaced >>

\* The destructors of the three effects on unmount: clearInterval(timer),
\* clearInterval(countdownTimer) when the countdown effect returned one,
\* clearInterval(refreshTimer).
TimeCardUnmount ==
    /\ tcPhase = "mounted"
    /\ tcPhase' = "unmounted"
    /\ clockTimer' = FALSE
    /\ countdownTimers' = IF nextEvent = None THEN countdownTimers
                          ELSE ClearInterval(countdownTimers)
    /\ refreshTimer' = FALSE
    /\ UNCHANGED << tcEvent, tcReads, currentTime, eventTimings, nextEvent, countdown,
                    tcHistory, tcLateFire, tcReplaced >>

\* The clock timer: setCurrentTime(new Date().toLocaleTimeString('en-GB'))
ClockTick ==
    \E now \in ClockNows :
        /\ clockTimer
        /\ currentTime' = ToLocaleTimeString(now)
        /\ TimerFires
        /\ UNCHANGED << tcEvent, tcPhase, tcReads, eventTimings, nextEvent, countdown,
                        tcTimers, tcHistory, tcReplaced >>

\* The one-minute refresh timer calls fetchEventTimings(), which suspends on the
\* read of the current event.
FetchEventTimingsCall ==
    /\ refreshTimer
    /\ Len(tcReads) < MaxTimingReads
    /\ tcReads' = Append(tcReads, [answered |-> FALSE, data |-> None])
    /\ TimerFires
    /\ UNCHANGED << tcEvent, tcPhase, currentTime, eventTimings, nextEvent, countdown,
                    tcTimers, tcHistory, tcReplaced >>

\* The backend evaluates .eq('is_current', true).single() for one pending call.
FetchEventTimingsServe ==
    \E i \in 1..Len(tcReads) :
        /\ ~tcReads[i].answered
        /\ tcReads' = [tcReads EXCEPT ![i] = [answered |-> TRUE, data |-> tcEvent]]
        /\ UNCHANGED << tcEvent, tcPhase, currentTime, eventTimings, nextEvent, countdown,
                        tcTimers, tcHistory, tcLateFire, tcReplaced >>

\* The await returns: if (event) { ... setEventTimings; setNextEvent }.  The new
\* nextEvent is a new object, so on a mounted view the countdown effect runs
\* again: the previous interval is cleared, a new one is started and
\* setCountdown(calculateCountdown()) is called for the new entry.
FetchEventTimingsResume ==
    \E i \in 1..Len(tcReads), now \in SelectorNows :
        /\ tcReads[i].answered
        /\ tcReads' = SubSeq(tcReads, 1, i - 1) \o SubSeq(tcReads, i + 1, Len(tcReads))
        /\ IF tcReads[i].data # None
           THEN LET nextThreeTimings == NextThreeTimings(tcReads[i].data[1], now)
                    next == FirstOrNull(nextThreeTimings)
                IN  /\ eventTimings' = nextThreeTimings
                    /\ nextEvent' = next
                    /\ selRow' = tcReads[i].data
                    /\ selNow' = Some(now)
                    /\ IF tcPhase = "mounted" /\ (nextEvent # None \/ next # None)
                       THEN /\ countdownTimers' =
                                  CountdownEffect(countdownTimers, nextEvent, next)
                            /\ tcReplaced' =
                                  (tcReplaced \/ (nextEvent # None /\ next # None))
                            /\ IF next = None
                               THEN UNCHANGED << countdown, cdInput >>
                               ELSE \E effectNow \in EffectNows(now) :
                                       /\ countdown' =
                                             calculateCountdown(next[1].time, effectNow)
                                       /\ cdInput' = Some([time |-> next[1].time,
                                                           now |-> effectNow])
                       ELSE UNCHANGED << countdownTimers, countdown, cdInput, tcReplaced >>
           ELSE UNCHANGED << eventTimings, nextEvent, countdownTimers, countdown,
                             tcHistory, tcReplaced >>
        /\ UNCHANGED << tcEvent, tcPhase, currentTime, clockTimer, refreshTimer, tcLateFire >>

\* The one-second timer of a run of the countdown effect:
\* setCountdown(calculateCountdown()) for the entry that run closed over.
CountdownTick ==
    \E t \in 1..Len(countdownTimers), now \in Instants :
        /\ countdown' = calculateCountdown(countdownTimers[t], now)
        /\ cdInput' = Some([time |-> countdownTimers[t], now |-> now])
        /\ TimerFires
        /\ UNCHANGED << tcEvent, tcPhase, tcReads, currentTime, eventTimings, nextEvent,
                        tcTimers, selRow, selNow, tcReplaced >>

\* The backend: the event stops being the current one (is_current is cleared).
EventEnded ==
    /\ tcEvent # None
    /\ tcEvent' = None
    /\ UNCHANGED << tcPhase, tcReads, currentTime, eventTimings, nextEvent, countdown,
                    tcTimers, tcHistory, tcLateFire, tcReplaced >>

\* The state after the first render; the clock text is the time of that render.
TimeCardInit(rows) ==
    /\ tcEvent \in { Some(r) : r \in rows }
    /\ tcPhase = "rendered"
    /\ tcReads = <<>>
    /\ currentTime = << 19, 59, 58 >>
    /\ eventTimings = <<>>
    /\ nextEvent = None
    /\ countdown = ""
    /\ clockTimer = FALSE
    /\ refreshTimer = FALSE
    /\ countdownTimers = <<>>
    /\ selRow = None
    /\ selNow = None
    /\ cdInput = None
    /\ tcLateFire = FALSE
    /\ tcReplaced = FALSE

(***************************************************************************)
(* Dashboard                                                               *)
(***************************************************************************)

\* incident_logs.incident_type
IncidentTypes ==
    { "Sit Rep", "Ejection", "Refusal", "Code Green", "Code Black", "Code Pink",
      "Code Purple", "Other" }
\* is_closed is null, true or false; action_taken is null or a text
ClosedValues == { None, Some(TRUE), Some(FALSE) }
ActionValues == { None, Some(""), Some("Escorted out") }
Incident(type, closed, action) ==
    [incident_type |-> type, is_closed |-> closed, action_taken |-> action]
IncidentKinds ==
    [incident_type : IncidentTypes, is_closed : ClosedValues, action_taken : ActionValues]

\* JavaScript truthiness of a nullable boolean and of a nullable text
TruthyFlag(v) == v # None /\ v[1]
TruthyText(v) == v # None /\ v[1] # ""

MaxStatReads == 2
MaxCheckReads == 1
MaxChanges == 2
MaxReadFailures == 1

VARIABLES
    currentEvent,          \* backend: id of the event flagged is_current, None or Some(id)
    incidentLogs,          \* backend: the incident rows of that event
    dashPhase,             \* "rendered" (effects not run yet), "mounted", "unmounted"
    dashSubscriptionRef,   \* useRef<RealtimeChannel | null>: None or Some(index in dashChannels)
    dashChannels,          \* channels created by this view: [st, pending]
    statReads,             \* fetchIncidentStats calls suspended on a read
    checkReads,            \* checkCurrentEvent calls suspended on their read
    incidentStats,         \* useState({ total, high, ... })
    hasCurrentEvent,       \* useState(false)
    currentEventId,        \* useState<string | null>
    lastApplied,           \* history: the rows of the read last stored by setIncidentStats
    dashChanges,           \* history: number of backend changes so far
    dashMissed,            \* history: a change was made while no channel was subscribed
    dashFailures,          \* history: number of reads that failed
    dashReapplied          \* history: a read of the rows already stored was stored again

dashVars ==
    << currentEvent, incidentLogs, dashPhase, dashSubscriptionRef, dashChannels,
       statReads, checkReads, incidentStats, hasCurrentEvent, currentEventId,
       lastApplied, dashChanges, dashMissed, dashFailures, dashReapplied >>

dashBackend == << currentEvent, incidentLogs, dashChanges, dashMissed >>
dashViewState == << incidentStats, hasCurrentEvent, currentEventId >>
dashHistory == << lastApplied, dashFailures, dashReapplied >>

\* useState initial value of incidentStats
InitialStats ==
    [total |-> 0, high |-> 0, open |-> 0, inProgress |-> 0, closed |-> 0, logged |-> 0,
     avgResolution |-> 0, refusals |-> 0, ejections |-> 0, medical |-> 0]

IsSitRep(i) == i.incident_type = "Sit Rep"
IsNotSitRep(i) == i.incident_type # "Sit Rep"
IsHigh(i) == i.incident_type \in { "Ejection", "Code Green", "Code Black", "Code Pink" }
IsMedical(i) == i.incident_type \in { "Code Green", "Code Purple" }
IsRefusal(i) == i.incident_type = "Refusal"
IsEjection(i) == i.incident_type = "Ejection"
NotClosed(i) == ~TruthyFlag(i.is_closed)
NotClosedWithAction(i) == ~TruthyFlag(i.is_closed) /\ TruthyText(i.action_taken)
IsClosed(i) == TruthyFlag(i.is_closed)

ComputeStats_ClosedCountsSitReps(incidents) ==
    [total         |-> Len(incidents),
     high          |-> Len(SelectSeq(incidents, IsHigh)),
     open          |-> Len(SelectSeq(SelectSeq(incidents, IsNotSitRep), NotClosed)),
     inProgress    |-> Len(SelectSeq(SelectSeq(incidents, IsNotSitRep), NotClosedWithAction)),
     closed        |-> Len(SelectSeq(incidents, IsClosed)),
     logged        |-> Len(SelectSeq(incidents, IsSitRep)),
     avgResolution |-> 0,
     refusals      |-> Len(SelectSeq(incidents, IsRefusal)),
     ejections     |-> Len(SelectSeq(incidents, IsEjection)),
     medical       |-> Len(SelectSeq(incidents, IsMedical))]

ComputeStats_SitRepsCountedOpen(incidents) ==
    [total         |-> Len(incidents),
     high          |-> Len(SelectSeq(incidents, IsHigh)),
     open          |-> Len(SelectSeq(incidents, NotClosed)),
     inProgress    |-> Len(SelectSeq(incidents, NotClosedWithAction)),
     closed        |-> Len(SelectSeq(incidents, IsClosed)),
     logged        |-> Len(SelectSeq(incidents, IsSitRep)),
     avgResolution |-> 0,
     refusals      |-> Len(SelectSeq(incidents, IsRefusal)),
     ejections     |-> Len(SelectSeq(incidents, IsEjection)),
     medical       |-> Len(SelectSeq(incidents, IsMedical))]

\* The object passed to setIncidentStats
ComputeStats(incidents) ==
    LET nonSitRepIncidents == SelectSeq(incidents, IsNotSitRep)
        sitRepIncidents == SelectSeq(incidents, IsSitRep)
    IN  [total         |-> Len(incidents),
         high          |-> Len(SelectSeq(incidents, IsHigh)),
         open          |-> Len(SelectSeq(nonSitRepIncidents, NotClosed)),
         inProgress    |-> Len(SelectSeq(nonSitRepIncidents, NotClosedWithAction)),
         closed        |-> Len(SelectSeq(nonSitRepIncidents, IsClosed)),
         logged        |-> Len(sitRepIncidents),
         avgResolution |-> 0,
         refusals      |-> Len(SelectSeq(incidents, IsRefusal)),
         ejections     |-> Len(SelectSeq(incidents, IsEjection)),
         medical       |-> Len(SelectSeq(incidents, IsMedical))]

NextIncidentStats_Accumulating(prev, incidents) ==
    [ComputeStats(incidents) EXCEPT !.total = prev.total + Len(incidents)]

\* setIncidentStats({...}): the new value is built from the rows alone; the
\* previous value is not read.
NextIncidentStats(prev, incidents) == ComputeStats(incidents)

RemoveAt(seq, i) == SubSeq(seq, 1, i - 1) \o SubSeq(seq, i + 1, Len(seq))

\* A fetchIncidentStats call at its first await.  `event` is the data of the
\* answered event read and `rows` the data of the answered incident read,
\* `failed` whether the answered read returned an error;
\* `mounted` records whether the view was mounted when the call was made.
EventRead(mounted) ==
    [pc |-> "event", answered |-> FALSE, failed |-> FALSE, event |-> None,
     rows |-> None, mounted |-> mounted]

Unsubscribed_NotCalled(channels, ref) == channels

\* cleanup(): if (subscriptionRef.current) { unsubscribe(); subscriptionRef.current = null }
\* unsubscribe() is not awaited: the channel is leaving until the backend confirms.
Unsubscribed(channels, ref) ==
    IF ref = None THEN channels
    ELSE [channels EXCEPT ![ref[1]].st = "leaving"]

\* The effect of Dashboard: checkCurrentEvent(); fetchIncidentStats(); cleanup();
\* subscriptionRef.current = supabase.channel(...).on(...).subscribe()
DashboardMount ==
    /\ dashPhase = "rendered"
    /\ dashPhase' = "mounted"
    /\ checkReads' = Append(checkReads, [answered |-> FALSE, data |-> None])
    /\ statReads' = Append(statReads, EventRead(TRUE))
    /\ dashChannels' =
          Append(Unsubscribed(dashChannels, dashSubscriptionRef),
                 [st |-> "joining", pending |-> 0])
    /\ dashSubscriptionRef' = Some(Len(dashChannels) + 1)
    /\ UNCHANGED << dashBackend, dashViewState, dashHistory >>

\* The effect's destructor: cleanup()
DashboardUnmount ==
    /\ dashPhase = "mounted"
    /\ dashPhase' = "unmounted"
    /\ dashChannels' = Unsubscribed(dashChannels, dashSubscriptionRef)
    /\ dashSubscriptionRef' = None
    /\ UNCHANGED << dashBackend, statReads, checkReads, dashViewState, dashHistory >>

\* The backend confirms subscribe(): from now on changes are pushed.
DashChannelJoined ==
    \E c \in 1..Len(dashChannels) :
        /\ dashChannels[c].st = "joining"
        /\ dashChannels' = [dashChannels EXCEPT ![c].st = "joined"]
        /\ UNCHANGED << dashBackend, dashPhase, dashSubscriptionRef, statReads, checkReads,
                        dashViewState, dashHistory >>

\* The backend confirms unsubscribe(): the channel is closed, what it had not
\* delivered is dropped.
DashChannelClosed ==
    \E c \in 1..Len(dashChannels) :
        /\ dashChannels[c].st = "leaving"
        /\ dashChannels' = [dashChannels EXCEPT ![c] = [st |-> "closed", pending |-> 0]]
        /\ UNCHANGED << dashBackend, dashPhase, dashSubscriptionRef, statReads, checkReads,
                        dashViewState, dashHistory >>

Subscribed(ch) == ch.st \in { "joined", "leaving" }

\* A change of incident_logs is pushed to every channel the backend still serves.
Notified(channels) ==
    [c \in 1..Len(channels) |->
        IF Subscribed(channels[c])
        THEN [channels[c] EXCEPT !.pending = @ + 1]
        ELSE channels[c]]

IncidentChanged(rows) ==
    /\ dashChanges < MaxChanges
    /\ dashChanges' = dashChanges + 1
    /\ incidentLogs' = rows
    /\ dashChannels' = Notified(dashChannels)
    /\ dashMissed' = (dashMissed \/ \A c \in 1..Len(dashChannels) : ~Subscribed(dashChannels[c]))
    /\ UNCHANGED << currentEvent, dashPhase, dashSubscriptionRef, statReads, checkReads,
                    dashViewState, dashHistory >>

\* Another client (or the incident form) inserts an incident of the current event.
IncidentInserted(pool) ==
    \E k \in pool :
        /\ currentEvent # None
        /\ IncidentChanged(Append(incidentLogs, k))

\* Another client closes an incident.
IncidentClosed ==
    \E i \in 1..Len(incidentLogs) :
        /\ ~TruthyFlag(incidentLogs[i].is_closed)
        /\ IncidentChanged([incidentLogs EXCEPT ![i].is_closed = Some(TRUE)])

\* The 'postgres_changes' callback: () => { fetchIncidentStats() }
DashNotification ==
    \E c \in 1..Len(dashChannels) :
        /\ Subscribed(dashChannels[c])
        /\ dashChannels[c].pending > 0
        /\ Len(statReads) < MaxStatReads
        /\ dashChannels' = [dashChannels EXCEPT ![c].pending = @ - 1]
        /\ statReads' = Append(statReads, EventRead(dashPhase = "mounted"))
        /\ UNCHANGED << dashBackend, dashPhase, dashSubscriptionRef, checkReads,
                        dashViewState, dashHistory >>

\* onIncidentCreated of the incident form: await fetchIncidentStats()
OnIncidentCreated ==
    /\ dashPhase = "mounted"
    /\ Len(statReads) < MaxStatReads
    /\ statReads' = Append(statReads, EventRead(TRUE))
    /\ UNCHANGED << dashBackend, dashPhase, dashSubscriptionRef, dashChannels, checkReads,
                    dashViewState, dashHistory >>

\* onEventCreated of the event form: await checkCurrentEvent()
OnEventCreated ==
    /\ dashPhase = "mounted"
    /\ Len(checkReads) < MaxCheckReads
    /\ checkReads' = Append(checkReads, [answered |-> FALSE, data |-> None])
    /\ UNCHANGED << dashBackend, dashPhase, dashSubscriptionRef, dashChannels, statReads,
                    dashViewState, dashHistory >>

\* The backend answers a read: { data } on success, { data: null, error } on failure.
Answer(value, failed) == IF failed THEN None ELSE value

MayFail(failed) == failed => dashFailures < MaxReadFailures
CountFailure(failed) == dashFailures' = dashFailures + (IF failed THEN 1 ELSE 0)

\* from('events').select('id').eq('is_current', true).single() is evaluated
StatsServe ==
    \E i \in 1..Len(statReads), failed \in BOOLEAN :
        /\ ~statReads[i].answered
        /\ MayFail(failed)
        /\ CountFailure(failed)
        /\ statReads' =
              IF statReads[i].pc = "event"
              THEN [statReads EXCEPT ![i].answered = TRUE, ![i].failed = failed,
                                     ![i].event = Answer(currentEvent, failed)]
              ELSE [statReads EXCEPT ![i].answered = TRUE, ![i].failed = failed,
                                     ![i].rows = Answer(Some(incidentLogs), failed)]
        /\ UNCHANGED << dashBackend, dashPhase, dashSubscriptionRef, dashChannels, checkReads,
                        dashViewState, lastApplied, dashReapplied >>

\* fetchIncidentStats resumes after the event read:
\* if (!currentEvent) return; else the incident read is sent
StatsEventResume ==
    \E i \in 1..Len(statReads) :
        /\ statReads[i].pc = "event"
        /\ statReads[i].answered
        /\ statReads' = IF statReads[i].event = None
                        THEN RemoveAt(statReads, i)
                        ELSE [statReads EXCEPT ![i].pc = "incidents", ![i].answered = FALSE]
        /\ UNCHANGED << dashBackend, dashPhase, dashSubscriptionRef, dashChannels, checkReads,
                        dashViewState, dashHistory >>

\* fetchIncidentStats resumes after the incident read:
\* if (!incidents) return; setIncidentStats({...})
StatsIncidentsResume ==
    \E i \in 1..Len(statReads) :
        /\ statReads[i].pc = "incidents"
        /\ statReads[i].answered
        /\ statReads' = RemoveAt(statReads, i)
        /\ IF statReads[i].rows = None
           THEN UNCHANGED << incidentStats, lastApplied, dashReapplied >>
           ELSE /\ incidentStats' = NextIncidentStats(incidentStats, statReads[i].rows[1])
                /\ lastApplied' = statReads[i].rows
                /\ dashReapplied' = (dashReapplied \/ statReads[i].rows = lastApplied)
        /\ UNCHANGED << dashBackend, dashPhase, dashSubscriptionRef, dashChannels, checkReads,
                        hasCurrentEvent, currentEventId, dashFailures >>

\* checkCurrentEvent's read is evaluated
CheckServe ==
    \E i \in 1..Len(checkReads), failed \in BOOLEAN :
        /\ ~checkReads[i].answered
        /\ MayFail(failed)
        /\ CountFailure(failed)
        /\ checkReads' = [checkReads EXCEPT ![i] =
                             [answered |-> TRUE, data |-> Answer(currentEvent, failed)]]
        /\ UNCHANGED << dashBackend, dashPhase, dashSubscriptionRef, dashChannels, statReads,
                        dashViewState, lastApplied, dashReapplied >>

\* setCurrentEventId(event?.id || null); setHasCurrentEvent(!!event)
CheckResume ==
    \E i \in 1..Len(checkReads) :
        /\ checkReads[i].answered
        /\ checkReads' = RemoveAt(checkReads, i)
        /\ currentEventId' = checkReads[i].data
        /\ hasCurrentEvent' = (checkReads[i].data # None)
        /\ UNCHANGED << dashBackend, dashPhase, dashSubscriptionRef, dashChannels, statReads,
                        incidentStats, dashHistory >>

DashboardInit(events, logs) ==
    /\ currentEvent \in events
    /\ incidentLogs \in logs
    /\ dashPhase = "rendered"
    /\ dashSubscriptionRef = None
    /\ dashChannels = <<>>
    /\ statReads = <<>>
    /\ checkReads = <<>>
    /\ incidentStats = InitialStats
    /\ hasCurrentEvent = FALSE
    /\ currentEventId = None
    /\ lastApplied = None
    /\ dashChanges = 0
    /\ dashMissed = FALSE
    /\ dashFailures = 0
    /\ dashReapplied = FALSE

(***************************************************************************)
(* VenueOccupancy                                                          *)
(***************************************************************************)

EventIds == { "A", "B" }
CountValues == { 10, 20 }
DefaultCapacity == 3500

MaxKeyChanges == 1
MaxAttendanceChanges == 2

VARIABLES
    venueCapacityOf,      \* backend: events.venue_capacity per event id, None when null
    attendance,           \* backend: attendance_records per event id: [timestamp, count]
    occKey,               \* the currentEventId prop: None or Some(id)
    occPhase,             \* "rendered" (effect not run yet), "mounted", "unmounted"
    occSubscriptionRef,   \* useRef<RealtimeChannel | null>: None or Some(index in occChannels)
    occChannels,          \* channels created by this view: [key, st, queue]
    occReads,             \* fetchData calls suspended on a read
    currentCount,         \* useState<number>(0)
    loading,              \* useState(true)
    venueCapacity,        \* useState<number>(3500)
    occKeyChanges,        \* history: number of changes of the prop
    occChanges,           \* history: number of attendance changes
    occMissed,            \* history: a change of the bound event was pushed to no channel
    occOldUpdated,        \* history: a record other than the latest was updated
    occFailures           \* history: number of reads that failed

occVars ==
    << venueCapacityOf, attendance, occKey, occPhase, occSubscriptionRef, occChannels,
       occReads, currentCount, loading, venueCapacity, occKeyChanges, occChanges,
       occMissed, occOldUpdated, occFailures >>

occBackend == << venueCapacityOf, attendance, occChanges, occMissed, occOldUpdated >>
occViewState == << currentCount, loading, venueCapacity >>

\* .order('timestamp', { ascending: false }).limit(1)
LatestAttendance(rows) ==
    CHOOSE r \in { rows[i] : i \in 1..Len(rows) } :
        \A i \in 1..Len(rows) : rows[i].timestamp <= r.timestamp

\* parseInt of a whole number
ParseInt(n) == n

FallbackCapacity_Kept(capacity) == capacity

\* catch (err) { setCurrentCount(0); setVenueCapacity(3500) }: the capacity stored
\* by the error path, whatever the capacity was
FallbackCapacity(capacity) == DefaultCapacity

CountOrZero_NoRowsUnknown(data) == IF data # None THEN data[1] ELSE -1

\* if (attendanceData) setCurrentCount(attendanceData.count) else setCurrentCount(0)
CountOrZero(data) == IF data # None THEN data[1] ELSE 0

\* The effect body for a non-null key: cleanup(); the channel is created and
\* subscribe() sent; fetchData() runs up to its first await: setLoading(true)
\* and the capacity read.
OccActivate(key, channels, ref) ==
    /\ occChannels' = Append(Unsubscribed(channels, ref),
                             [key |-> key, st |-> "joining", queue |-> <<>>])
    /\ occSubscriptionRef' = Some(Len(channels) + 1)
    /\ loading' = TRUE
    /\ occReads' = Append(occReads,
                          [key |-> key, pc |-> "event", answered |-> FALSE,
                           failed |-> FALSE, data |-> None])

\* useEffect(..., [currentEventId]) as run with the prop at `key`, the ref and
\* the channels being what the destructor of the previous run left.
OccEffect(key, channels, ref) ==
    IF key = None
    THEN /\ occChannels' = Unsubscribed(channels, ref)
         /\ occSubscriptionRef' = None
         /\ UNCHANGED << loading, occReads >>
    ELSE OccActivate(key[1], channels, ref)

\* First run of the effect.
OccMount ==
    /\ occPhase = "rendered"
    /\ occPhase' = "mounted"
    /\ OccEffect(occKey, occChannels, occSubscriptionRef)
    /\ UNCHANGED << occBackend, occKey, currentCount, venueCapacity, occKeyChanges,
                    occFailures >>

\* The parent renders the view with another currentEventId: the destructor of
\* the previous run (cleanup, when that run returned one) and then the effect.
OccKeyChange ==
    \E key \in { None } \cup { Some(e) : e \in EventIds } :
        /\ occPhase = "mounted"
        /\ key # occKey
        /\ occKeyChanges < MaxKeyChanges
        /\ occKeyChanges' = occKeyChanges + 1
        /\ occKey' = key
        /\ IF occKey = None
           THEN OccEffect(key, occChannels, occSubscriptionRef)
           ELSE OccEffect(key, Unsubscribed(occChannels, occSubscriptionRef), None)
        /\ UNCHANGED << occBackend, occPhase, currentCount, venueCapacity, occFailures >>

\* Unmount: the destructor of the last run, when that run returned one.
OccUnmount ==
    /\ occPhase = "mounted"
    /\ occPhase' = "unmounted"
    /\ IF occKey = None
       THEN UNCHANGED << occChannels, occSubscriptionRef >>
       ELSE /\ occChannels' = Unsubscribed(occChannels, occSubscriptionRef)
            /\ occSubscriptionRef' = None
    /\ UNCHANGED << occBackend, occKey, occReads, occViewState, occKeyChanges, occFailures >>

OccChannelJoined ==
    \E c \in 1..Len(occChannels) :
        /\ occChannels[c].st = "joining"
        /\ occChannels' = [occChannels EXCEPT ![c].st = "joined"]
        /\ UNCHANGED << occBackend, occKey, occPhase, occSubscriptionRef, occReads,
                        occViewState, occKeyChanges, occFailures >>

OccChannelClosed ==
    \E c \in 1..Len(occChannels) :
        /\ occChannels[c].st = "leaving"
        /\ occChannels' = [occChannels EXCEPT ![c].st = "closed", ![c].queue = <<>>]
        /\ UNCHANGED << occBackend, occKey, occPhase, occSubscriptionRef, occReads,
                        occViewState, occKeyChanges, occFailures >>

\* A change of attendance_records with event_id = id is pushed, as { kind, count },
\* to every channel filtered on that id that the backend still serves.
Pushed(channels, id, kind, count) ==
    [c \in 1..Len(channels) |->
        IF Subscribed(channels[c]) /\ channels[c].key = id
        THEN [channels[c] EXCEPT !.queue = Append(@, [kind |-> kind, count |-> count])]
        ELSE channels[c]]

AttendanceChanged(id, rows, kind, count) ==
    /\ occChanges < MaxAttendanceChanges
    /\ occChanges' = occChanges + 1
    /\ attendance' = [attendance EXCEPT ![id] = rows]
    /\ occChannels' = Pushed(occChannels, id, kind, count)
    /\ occMissed' =
          (occMissed \/ (/\ occKey = Some(id)
                         /\ \A c \in 1..Len(occChannels) :
                               ~(Subscribed(occChannels[c]) /\ occChannels[c].key = id)))
    /\ UNCHANGED << venueCapacityOf, occKey, occPhase, occSubscriptionRef, occReads,
                    occViewState, occKeyChanges, occFailures >>

\* A new attendance record, later than every record of the event.
AttendanceInserted ==
    \E id \in EventIds, count \in CountValues :
        /\ AttendanceChanged(id,
               Append(attendance[id],
                      [timestamp |-> Len(attendance[id]) + 1, count |-> count]),
               "INSERT", count)
        /\ UNCHANGED occOldUpdated

\* The count of an existing attendance record is corrected.
AttendanceUpdated ==
    \E id \in EventIds, count \in CountValues :
        \E i \in 1..Len(attendance[id]) :
            /\ count # attendance[id][i].count
            /\ AttendanceChanged(id, [attendance[id] EXCEPT ![i].count = count],
                                 "UPDATE", count)
            /\ occOldUpdated' = (occOldUpdated \/ i # Len(attendance[id]))

OccDelivery(c, kind) ==
    /\ Subscribed(occChannels[c])
    /\ occChannels[c].queue # <<>>
    /\ Head(occChannels[c].queue).kind = kind
    /\ occChannels' = [occChannels EXCEPT ![c].queue = Tail(@)]
    /\ currentCount' = Head(occChannels[c].queue).count
    /\ UNCHANGED << occBackend, occKey, occPhase, occSubscriptionRef, occReads, loading,
                    venueCapacity, occKeyChanges, occFailures >>

\* The INSERT callback: setCurrentCount(newRecord.count)
OccInsertNotification == \E c \in 1..Len(occChannels) : OccDelivery(c, "INSERT")

\* The UPDATE callback: setCurrentCount(updatedRecord.count)
OccUpdateNotification == \E c \in 1..Len(occChannels) : OccDelivery(c, "UPDATE")

\* What the backend answers to a read of fetchData: the capacity column, or the
\* count of the latest attendance record (None with PGRST116 when there is none).
OccAnswer(read) ==
    IF read.pc = "event"
    THEN venueCapacityOf[read.key]
    ELSE IF attendance[read.key] = <<>> THEN None
         ELSE Some(LatestAttendance(attendance[read.key]).count)

OccServe ==
    \E i \in 1..Len(occReads), failed \in BOOLEAN :
        /\ ~occReads[i].answered
        /\ failed => occFailures < MaxReadFailures
        /\ occFailures' = occFailures + (IF failed THEN 1 ELSE 0)
        /\ occReads' =
              [occReads EXCEPT ![i].answered = TRUE, ![i].failed = failed,
                               ![i].data = IF failed THEN None ELSE OccAnswer(occReads[i])]
        /\ UNCHANGED << occBackend, occKey, occPhase, occSubscriptionRef, occChannels,
                        occViewState, occKeyChanges >>

\* fetchData resumes after the capacity read: if (eventError) throw, caught by
\* setCurrentCount(0); setVenueCapacity(3500), then finally setLoading(false);
\* otherwise the capacity is stored when it is truthy and the attendance read is sent.
OccEventResume ==
    \E i \in 1..Len(occReads) :
        /\ occReads[i].pc = "event"
        /\ occReads[i].answered
        /\ IF occReads[i].failed
           THEN /\ currentCount' = 0
                /\ venueCapacity' = FallbackCapacity(venueCapacity)
                /\ loading' = FALSE
                /\ occReads' = RemoveAt(occReads, i)
           ELSE /\ venueCapacity' =
                      IF occReads[i].data # None /\ occReads[i].data[1] # 0
                      THEN ParseInt(occReads[i].data[1])
                      ELSE venueCapacity
                /\ occReads' = [occReads EXCEPT ![i].pc = "attendance",
                                                ![i].answered = FALSE, ![i].data = None]
                /\ UNCHANGED << currentCount, loading >>
        /\ UNCHANGED << occBackend, occKey, occPhase, occSubscriptionRef, occChannels,
                        occKeyChanges, occFailures >>

\* fetchData resumes after the attendance read: an error other than PGRST116 is
\* thrown and caught as above; otherwise setCurrentCount(attendanceData.count)
\* or setCurrentCount(0); finally setLoading(false).
OccAttendanceResume ==
    \E i \in 1..Len(occReads) :
        /\ occReads[i].pc = "attendance"
        /\ occReads[i].answered
        /\ occReads' = RemoveAt(occReads, i)
        /\ loading' = FALSE
        /\ IF occReads[i].failed
           THEN /\ currentCount' = 0
                /\ venueCapacity' = FallbackCapacity(venueCapacity)
           ELSE /\ currentCount' = CountOrZero(occReads[i].data)
                /\ UNCHANGED venueCapacity
        /\ UNCHANGED << occBackend, occKey, occPhase, occSubscriptionRef, occChannels,
                        occKeyChanges, occFailures >>

OccupancyInit(keys, capacities, records) ==
    /\ venueCapacityOf \in capacities
    /\ attendance \in records
    /\ occKey \in keys
    /\ occPhase = "rendered"
    /\ occSubscriptionRef = None
    /\ occChannels = <<>>
    /\ occReads = <<>>
    /\ currentCount = 0
    /\ loading = TRUE
    /\ venueCapacity = DefaultCapacity
    /\ occKeyChanges = 0
    /\ occChanges = 0
    /\ occMissed = FALSE
    /\ occOldUpdated = FALSE
    /\ occFailures = 0

\* Math.round((currentCount / venueCapacity) * 100) for count >= 0 and capacity > 0.
\* The quotient and the product are binary floating point: where the exact value
\* lies halfway between two integers the product may fall on either side of the
\* half (1 / 200 * 100 is 0.5, 201 / 200 * 100 is 100.49999999999999), so either
\* neighbour can be the result; everywhere else it is the nearest integer.
RoundedPercent(count, capacity) ==
    LET q == (100 * count) \div capacity
        r == (100 * count) % capacity
    IN  IF 2 * r < capacity THEN { q }
        ELSE IF 2 * r > capacity THEN { q + 1 }
        ELSE { q, q + 1 }

\* The colour of the percentage and of the bar:
\* currentCount > venueCapacity ? red : currentCount >= venueCapacity * 0.9 ? orange : blue
StatusColor(count, capacity) ==
    IF count > capacity THEN "#ef4444"
    ELSE IF 10 * count >= 9 * capacity THEN "#f97316"
    ELSE "#2A3990"

\* Percentage clamped like the bar width (not what the view shows)
OccupancyPanel_PercentClamped(count, capacity) ==
    IF capacity > 0
    THEN { [view |-> "occupancy", bar |-> TRUE, percentage |-> Some(Min2(pct, 100)),
            width |-> Some(Min2(pct, 100)), color |-> Some(StatusColor(count, capacity)),
            overCapacity |-> count > capacity] : pct \in RoundedPercent(count, capacity) }
    ELSE { [view |-> "occupancy", bar |-> FALSE, percentage |-> None, width |-> None,
            color |-> None, overCapacity |-> FALSE] }

\* The occupancy panel: the block guarded by venueCapacity > 0 holds the
\* percentage, the Over Capacity flag and the bar.
OccupancyPanel(count, capacity) ==
    IF capacity > 0
    THEN { [view |-> "occupancy", bar |-> TRUE, percentage |-> Some(pct),
            width |-> Some(Min2(pct, 100)), color |-> Some(StatusColor(count, capacity)),
            overCapacity |-> count > capacity] : pct \in RoundedPercent(count, capacity) }
    ELSE { [view |-> "occupancy", bar |-> FALSE, percentage |-> None, width |-> None,
            color |-> None, overCapacity |-> FALSE] }

Placeholder(view) ==
    { [view |-> view, bar |-> FALSE, percentage |-> None, width |-> None,
       color |-> None, overCapacity |-> FALSE] }

\* What the component returns for its props and state: the loading skeleton
\* first, then "No event selected", then the panel.
OccRender(key, isLoading, count, capacity) ==
    IF isLoading THEN Placeholder("loading")
    ELSE IF key = None THEN Placeholder("no event")
    ELSE OccupancyPanel(count, capacity)

\* What the view shows in the current state
OccShown == OccRender(occKey, loading, currentCount, venueCapacity)

(***************************************************************************)
(* Specifications                                                          *)
(***************************************************************************)

vars == << tcVars, dashVars, occVars >>

TimeCardIdle == TimeCardInit({ [i \in 1..FieldCount |-> Unset] })
DashboardIdle == DashboardInit({ None }, { <<>> })

NoCapacity == [e \in EventIds |-> None]
NoRecords == [e \in EventIds |-> <<>>]
OccupancyIdle == OccupancyInit({ None }, { NoCapacity }, { NoRecords })

TimeCardOnly == UNCHANGED << dashVars, occVars >>
DashboardOnly == UNCHANGED << tcVars, occVars >>
OccupancyOnly == UNCHANGED << tcVars, dashVars >>

\* The schedule selector over every assignment of the six fields, as fetched on mount.
SelectorInit == TimeCardInit(ScheduleRows) /\ DashboardIdle /\ OccupancyIdle

SelectorNext ==
    \/ TimeCardMount /\ TimeCardOnly
    \/ FetchEventTimingsServe /\ TimeCardOnly
    \/ FetchEventTimingsResume /\ TimeCardOnly

SpecSelector == SelectorInit /\ [][SelectorNext]_vars

\* The countdown over every instant, for a few next entries.
CountdownInit == TimeCardInit(CountdownRows) /\ DashboardIdle /\ OccupancyIdle

CountdownNext ==
    \/ TimeCardMount /\ TimeCardOnly
    \/ FetchEventTimingsCall /\ TimeCardOnly
    \/ FetchEventTimingsServe /\ TimeCardOnly
    \/ FetchEventTimingsResume /\ TimeCardOnly
    \/ CountdownTick /\ TimeCardOnly

SpecCountdown == CountdownInit /\ [][CountdownNext]_vars

\* The TimeCard view with its three timers, from mount to unmount, while the
\* clock passes the entries.
TimeCardRows ==
    { << Unset, <<18, 0, 0>>, <<20, 0, 0>>, Unset, Unset, Unset >>,
      << Unset, Unset, <<23, 0, 0>>, Unset, Unset, Unset >> }

TimeCardViewInit == TimeCardInit(TimeCardRows) /\ DashboardIdle /\ OccupancyIdle

TimeCardNext ==
    \/ TimeCardMount /\ TimeCardOnly
    \/ TimeCardUnmount /\ TimeCardOnly
    \/ ClockTick /\ TimeCardOnly
    \/ FetchEventTimingsCall /\ TimeCardOnly
    \/ FetchEventTimingsServe /\ TimeCardOnly
    \/ FetchEventTimingsResume /\ TimeCardOnly
    \/ CountdownTick /\ TimeCardOnly

SpecTimeCard == TimeCardViewInit /\ [][TimeCardNext]_vars

\* The schedule of a mounted TimeCard while the event ends.
EventEndNext ==
    \/ TimeCardMount /\ TimeCardOnly
    \/ FetchEventTimingsCall /\ TimeCardOnly
    \/ FetchEventTimingsServe /\ TimeCardOnly
    \/ FetchEventTimingsResume /\ TimeCardOnly
    \/ EventEnded /\ TimeCardOnly

SpecEventEnd == TimeCardViewInit /\ [][EventEndNext]_vars

\* The incident statistics over every small incident set, as fetched on mount.
MaxIncidents == 2

\* The incident kinds in a fixed order; an incident set is listed in that order.
TypeSeq ==
    << "Sit Rep", "Ejection", "Refusal", "Code Green", "Code Black", "Code Pink",
       "Code Purple", "Other" >>
ClosedSeq == << None, Some(TRUE), Some(FALSE) >>
ActionSeq == << None, Some(""), Some("Escorted out") >>
KindCount == Len(TypeSeq) * Len(ClosedSeq) * Len(ActionSeq)
KindAt(k) ==
    Incident(TypeSeq[((k - 1) \div (Len(ClosedSeq) * Len(ActionSeq))) + 1],
             ClosedSeq[(((k - 1) \div Len(ActionSeq)) % Len(ClosedSeq)) + 1],
             ActionSeq[((k - 1) % Len(ActionSeq)) + 1])

\* The ascending sequences of n kind indices
SortedRuns(n) ==
    { run \in [1..n -> 1..KindCount] : \A i \in 1..(n - 1) : run[i] <= run[i + 1] }

ExampleIncidents ==
    << Incident("Sit Rep", None, None),
       Incident("Ejection", Some(FALSE), None),
       Incident("Refusal", Some(TRUE), Some("Escorted out")) >>

IncidentSets ==
    { [i \in 1..Len(run) |-> KindAt(run[i])] :
        run \in UNION { SortedRuns(n) : n \in 0..MaxIncidents } }
    \cup { ExampleIncidents }

StatsInit == TimeCardIdle /\ DashboardInit({ Some("A") }, IncidentSets) /\ OccupancyIdle

StatsNext ==
    \/ DashboardMount /\ DashboardOnly
    \/ StatsServe /\ DashboardOnly
    \/ StatsEventResume /\ DashboardOnly
    \/ StatsIncidentsResume /\ DashboardOnly

SpecStats == StatsInit /\ [][StatsNext]_vars

ChangePool ==
    { Incident("Sit Rep", None, None),
      Incident("Ejection", Some(FALSE), Some("Escorted out")),
      Incident("Refusal", Some(TRUE), None) }

\* Recomputation: concurrent fetches while the incident set changes.
RecomputeInit == TimeCardIdle /\ DashboardInit({ Some("A") }, { <<>> }) /\ OccupancyIdle

RecomputeNext ==
    \/ DashboardMount /\ DashboardOnly
    \/ IncidentInserted(ChangePool) /\ DashboardOnly
    \/ IncidentClosed /\ DashboardOnly
    \/ OnIncidentCreated /\ DashboardOnly
    \/ StatsServe /\ DashboardOnly
    \/ StatsEventResume /\ DashboardOnly
    \/ StatsIncidentsResume /\ DashboardOnly

SpecRecompute == RecomputeInit /\ [][RecomputeNext]_vars

\* The Dashboard view with its channel, concurrent reads and backend changes.

DashInit == TimeCardIdle /\ DashboardInit({ None, Some("A") }, { <<>> }) /\ OccupancyIdle

DashNext ==
    \/ DashboardMount /\ DashboardOnly
    \/ DashboardUnmount /\ DashboardOnly
    \/ DashChannelJoined /\ DashboardOnly
    \/ DashChannelClosed /\ DashboardOnly
    \/ IncidentInserted(ChangePool) /\ DashboardOnly
    \/ IncidentClosed /\ DashboardOnly
    \/ DashNotification /\ DashboardOnly
    \/ OnIncidentCreated /\ DashboardOnly
    \/ OnEventCreated /\ DashboardOnly
    \/ StatsServe /\ DashboardOnly
    \/ StatsEventResume /\ DashboardOnly
    \/ StatsIncidentsResume /\ DashboardOnly
    \/ CheckServe /\ DashboardOnly
    \/ CheckResume /\ DashboardOnly

SpecDashboard == DashInit /\ [][DashNext]_vars

\* The VenueOccupancy view with its keyed channel, reads and attendance changes.
OccCapacities == { [e \in EventIds |-> IF e = "A" THEN Some(5000) ELSE None] }
OccRecords ==
    { NoRecords,
      [e \in EventIds |-> IF e = "A" THEN << [timestamp |-> 1, count |-> 10] >> ELSE <<>>] }

OccInit ==
    /\ TimeCardIdle
    /\ DashboardIdle
    /\ OccupancyInit({ None, Some("A") }, OccCapacities, OccRecords)

OccNext ==
    \/ OccMount /\ OccupancyOnly
    \/ OccKeyChange /\ OccupancyOnly
    \/ OccUnmount /\ OccupancyOnly
    \/ OccChannelJoined /\ OccupancyOnly
    \/ OccChannelClosed /\ OccupancyOnly
    \/ AttendanceInserted /\ OccupancyOnly
    \/ AttendanceUpdated /\ OccupancyOnly
    \/ OccInsertNotification /\ OccupancyOnly
    \/ OccUpdateNotification /\ OccupancyOnly
    \/ OccServe /\ OccupancyOnly
    \/ OccEventResume /\ OccupancyOnly
    \/ OccAttendanceResume /\ OccupancyOnly

SpecOccupancy == OccInit /\ [][OccNext]_vars

\* The lifecycles of Dashboard and VenueOccupancy side by side: mounts, key
\* changes, unmounts and the backend's confirmations.
LifecycleInit ==
    /\ TimeCardIdle
    /\ DashboardInit({ Some("A") }, { <<>> })
    /\ OccupancyInit({ None, Some("A") }, OccCapacities, { NoRecords })

LifecycleNext ==
    \/ DashboardMount /\ DashboardOnly
    \/ DashboardUnmount /\ DashboardOnly
    \/ DashChannelJoined /\ DashboardOnly
    \/ DashChannelClosed /\ DashboardOnly
    \/ OccMount /\ OccupancyOnly
    \/ OccKeyChange /\ OccupancyOnly
    \/ OccUnmount /\ OccupancyOnly
    \/ OccChannelJoined /\ OccupancyOnly
    \/ OccChannelClosed /\ OccupancyOnly

SpecLifecycle == LifecycleInit /\ [][LifecycleNext]_vars

\* The occupancy panel over counts and capacities around the tier boundaries.
RenderCapacityValues == { None, Some(0), Some(200), Some(3500) }
RenderCountValues == { 0, 1, 179, 180, 181, 200, 201, 3149, 3150, 3500, 3501, 4000 }
RenderCapacities ==
    { [e \in EventIds |-> IF e = "A" THEN c ELSE None] : c \in RenderCapacityValues }
RenderRecords ==
    { NoRecords } \cup
    { [e \in EventIds |-> IF e = "A" THEN << [timestamp |-> 1, count |-> n] >> ELSE <<>>] :
        n \in RenderCountValues }

RenderInit ==
    /\ TimeCardIdle
    /\ DashboardIdle
    /\ OccupancyInit({ Some("A") }, RenderCapacities, RenderRecords)

RenderNext ==
    \/ OccMount /\ OccupancyOnly
    \/ OccServe /\ OccupancyOnly
    \/ OccEventResume /\ OccupancyOnly
    \/ OccAttendanceResume /\ OccupancyOnly

SpecRender == RenderInit /\ [][RenderNext]_vars

(***************************************************************************)
(* Claims about TimeCard                                                   *)
(***************************************************************************)

TimeOfDayMinutes(t) == 60 * t[1] + t[2]
ClockMinutes(now) == 60 * now.h + now.m

SelectorBounded ==
    /\ Len(eventTimings) <= 3
    /\ \A i \in 1..Len(eventTimings) :
          /\ TimeOfDayMinutes(eventTimings[i].time) > ClockMinutes(selNow[1])
          /\ eventTimings[i].isNext = (i = 1)

\* C6 (as amended): after the selector has run, the list has at most 3 entries,
\* its times are ascending but two entries may share a time, every time is
\* strictly later than the current minutes-since-midnight, and the first entry
\* and only the first is flagged as next.
C6_SelectorShape ==
    selNow # None =>
        /\ SelectorBounded
        /\ \A i \in 1..Len(eventTimings), j \in 1..Len(eventTimings) :
              i < j => TimeOfDayMinutes(eventTimings[i].time)
                          <= TimeOfDayMinutes(eventTimings[j].time)

\* C6 as stated: the same, with the times strictly ascending (no shared time).
C6_StrictlyAscending ==
    selNow # None =>
        /\ SelectorBounded
        /\ \A i \in 1..Len(eventTimings), j \in 1..Len(eventTimings) :
              i < j => TimeOfDayMinutes(eventTimings[i].time)
                          < TimeOfDayMinutes(eventTimings[j].time)

C6_Witness ==
    /\ selNow # None
    /\ Len(eventTimings) = 3
    /\ eventTimings[1].time = eventTimings[2].time
    /\ eventTimings[1].isNext

\* The reference list of C7: the set fields strictly later than now, ordered by
\* (minutes, field position).
RefFuture(row, now) ==
    { i \in 1..FieldCount :
        row[i] # Unset /\ TimeOfDayMinutes(row[i]) > ClockMinutes(now) }
RefBefore(row, i, j) ==
    \/ TimeOfDayMinutes(row[i]) < TimeOfDayMinutes(row[j])
    \/ TimeOfDayMinutes(row[i]) = TimeOfDayMinutes(row[j]) /\ i < j
RefRank(row, F, i) == Cardinality({ j \in F : RefBefore(row, j, i) }) + 1
RefList(row, now) ==
    LET F == RefFuture(row, now)
        n == IF Cardinality(F) < 3 THEN Cardinality(F) ELSE 3
    IN  [k \in 1..n |->
            LET i == CHOOSE i \in F : RefRank(row, F, i) = k
            IN  [title |-> FieldTitles[i], time |-> row[i], isNext |-> (k = 1)]]

ExampleRow == << Unset, <<18, 0, 0>>, <<20, 0, 0>>, Unset, Unset, <<23, 0, 0>> >>
ExampleNow == Instant(19, 0, 0, 0)
ExampleList ==
    << [title |-> "Main Act", time |-> <<20, 0, 0>>, isNext |-> TRUE],
       [title |-> "Curfew", time |-> <<23, 0, 0>>, isNext |-> FALSE] >>

\* C7: the stored list is exactly the first three elements of the reference
\* list (future fields of the current day, by minutes ascending, equal times in
\* field order), nextEvent is its first entry or null, and Doors Open 18:00,
\* Main Act 20:00, Curfew 23:00 at 19:00 gives [Main Act 20:00 (next), Curfew 23:00].
C7_SelectorIsReference ==
    selNow # None =>
        /\ eventTimings = RefList(selRow[1], selNow[1])
        /\ nextEvent = (IF Len(eventTimings) = 0 THEN None ELSE Some(eventTimings[1]))
        /\ (selRow[1] = ExampleRow /\ selNow[1] = ExampleNow) => eventTimings = ExampleList

C7_Witness ==
    /\ selRow = Some(ExampleRow)
    /\ selNow = Some(ExampleNow)
    /\ Len(eventTimings) = 2
    /\ nextEvent # None

\* The countdown of C8: target is today at T:00.000 when that is not before now,
\* else exactly one day later; the parts are the whole-unit decomposition of
\* target minus now.
RefTargetMs(time, now) ==
    LET today == TimeOfDayMinutes(time) * 60 * 1000
        nowMs == ((now.h * 60 + now.m) * 60 + now.s) * 1000 + now.ms
    IN  IF today < nowMs THEN today + 24 * 60 * 60 * 1000 ELSE today
RefDiffMs(time, now) ==
    RefTargetMs(time, now) - (((now.h * 60 + now.m) * 60 + now.s) * 1000 + now.ms)
RefCountdown(time, now) ==
    LET secs == RefDiffMs(time, now) \div 1000
    IN  ToString(secs \div 3600) \o "h " \o ToString((secs % 3600) \div 60) \o "m "
            \o ToString(secs % 60) \o "s"

\* C8 as stated: for every next-entry time T and every instant, the stored
\* countdown is the whole-unit decomposition of (today at T, or tomorrow at T
\* when today at T is before now) minus now; 20:00 at 19:59:30 gives
\* "0h 0m 30s" and at 20:00:01 the target is tomorrow 20:00.
C8_CountdownFromTodayAtT ==
    cdInput # None =>
        LET time == cdInput[1].time
            now == cdInput[1].now
        IN  /\ countdown = RefCountdown(time, now)
            /\ RefDiffMs(time, now) >= 0
            /\ RefDiffMs(time, now) < 24 * 60 * 60 * 1000
            /\ (time = <<20, 0, 0>> /\ now = Instant(19, 59, 30, 0))
                  => countdown = "0h 0m 30s"
            /\ (time = <<20, 0, 0>> /\ now = Instant(20, 0, 1, 0))
                  => countdown = "23h 59m 59s"

\* What the code does keep of C8: at instants with no millisecond part the
\* stored countdown is the one C8 describes.
CountdownAtWholeSeconds ==
    (cdInput # None /\ cdInput[1].now.ms = 0) =>
        countdown = RefCountdown(cdInput[1].time, cdInput[1].now)

(***************************************************************************)
(* Claims about the incident statistics                                    *)
(***************************************************************************)

RefCount(rows, kinds) == Cardinality({ i \in 1..Len(rows) : rows[i] \in kinds })
RefClosed(r) == r.is_closed = Some(TRUE)
RefSitRep(r) == r.incident_type = "Sit Rep"
\* an action-taken marker is a non-empty action_taken text
RefMarked(r) == r.action_taken \notin { None, Some("") }
RefOfType(types) == { r \in IncidentKinds : r.incident_type \in types }

RefStats(rows) ==
    [total      |-> Len(rows),
     high       |-> RefCount(rows, RefOfType({"Ejection", "Code Green", "Code Black",
                                              "Code Pink"})),
     logged     |-> RefCount(rows, RefOfType({"Sit Rep"})),
     open       |-> RefCount(rows, { r \in IncidentKinds :
                                        ~RefSitRep(r) /\ ~RefClosed(r) }),
     inProgress |-> RefCount(rows, { r \in IncidentKinds :
                                        ~RefSitRep(r) /\ ~RefClosed(r) /\ RefMarked(r) }),
     closed     |-> RefCount(rows, { r \in IncidentKinds :
                                        ~RefSitRep(r) /\ RefClosed(r) }),
     refusals   |-> RefCount(rows, RefOfType({"Refusal"})),
     ejections  |-> RefCount(rows, RefOfType({"Ejection"}))]

StatsAre(stats, rows) ==
    \A bucket \in DOMAIN RefStats(rows) : stats[bucket] = RefStats(rows)[bucket]

\* C9: the stored statistics are, for the incident set of the read they come
\* from: total = all; high = Ejection, Code Green, Code Black or Code Pink;
\* logged = Sit Rep; open = non-Sit-Rep not closed; inProgress = non-Sit-Rep not
\* closed with an action-taken marker; closed = non-Sit-Rep closed; refusals =
\* Refusal; ejections = Ejection.  One Sit Rep, one open Ejection and one closed
\* Refusal give total 3, high 1, open 1, closed 1, logged 1, refusals 1, ejections 1.
C9_StatsBuckets ==
    lastApplied # None =>
        /\ StatsAre(incidentStats, lastApplied[1])
        /\ lastApplied[1] = ExampleIncidents =>
              /\ incidentStats.total = 3 /\ incidentStats.high = 1
              /\ incidentStats.open = 1 /\ incidentStats.closed = 1
              /\ incidentStats.logged = 1 /\ incidentStats.refusals = 1
              /\ incidentStats.ejections = 1

C9_Witness ==
    /\ lastApplied = Some(ExampleIncidents)
    /\ statReads = <<>>
    /\ incidentStats.total = 3
    /\ incidentStats.high = 1

\* The step in which fetchIncidentStats call i stores the rows it read
StoresRead(i) ==
    /\ statReads[i].pc = "incidents"
    /\ statReads[i].answered
    /\ statReads[i].rows # None
    /\ statReads' = RemoveAt(statReads, i)
    /\ lastApplied' = statReads[i].rows

\* C10: whatever was stored before, a completed fetchIncidentStats stores what
\* the same rows give from the initial value (no accumulation), and storing
\* again the rows that were stored last leaves every bucket as it was.
C10_RecomputeIdempotent ==
    [][\A i \in 1..Len(statReads) :
          StoresRead(i) =>
              /\ incidentStats' = NextIncidentStats(InitialStats, statReads[i].rows[1])
              /\ (statReads[i].rows = lastApplied => incidentStats' = incidentStats)]_vars

C10_Witness ==
    /\ dashReapplied
    /\ dashChanges > 0
    /\ incidentStats.total > 0
    /\ incidentStats.total = Len(incidentLogs)

(***************************************************************************)
(* Claims about the channels and the reads in flight                       *)
(***************************************************************************)

\* A channel is live from its creation until its unsubscribe has settled.
Live(ch) == ch.st # "closed"
LiveCount(channels) == Cardinality({ c \in 1..Len(channels) : Live(channels[c]) })

\* C1: in every reachable state each view instance has at most one live
\* channel, a channel whose unsubscribe has not settled yet counting as live.
C1_AtMostOneLiveChannel ==
    /\ LiveCount(dashChannels) <= 1
    /\ LiveCount(occChannels) <= 1

LiveFor(channels, id) ==
    \E c \in 1..Len(channels) : Live(channels[c]) /\ channels[c].key = id

\* C2: when the key changes from A to B, A's channel is unsubscribed before
\* B's channel is created, with exactly one unsubscribe call and one channel
\* creation, and at no point are a channel bound to A and one bound to B both live.
C2_CloseThenOpen ==
    [][/\ (occKey = Some("A") /\ occKey' = Some("B")) =>
             /\ Len(occChannels') = Len(occChannels) + 1
             /\ occChannels'[Len(occChannels')].key = "B"
             /\ Cardinality({ c \in 1..Len(occChannels) :
                                 /\ occChannels[c].st \in { "joining", "joined" }
                                 /\ occChannels'[c].st = "leaving" }) = 1
             /\ \A c \in 1..Len(occChannels) :
                   occChannels[c].key = "A" => occChannels'[c].st \in { "leaving", "closed" }
       /\ ~(LiveFor(occChannels', "A") /\ LiveFor(occChannels', "B"))]_vars

\* C3: a snapshot read issued while the view was mounted that resolves after
\* the view was unmounted changes none of the view's state variables.
C3_LateReadDiscarded ==
    [][/\ (/\ dashPhase = "unmounted"
           /\ \E i \in 1..Len(statReads) :
                 /\ statReads[i].mounted
                 /\ statReads[i].answered
                 /\ statReads' = RemoveAt(statReads, i))
          => UNCHANGED dashViewState
       /\ (/\ dashPhase = "unmounted"
           /\ \E i \in 1..Len(checkReads) :
                 checkReads[i].answered /\ checkReads' = RemoveAt(checkReads, i))
          => UNCHANGED dashViewState
       /\ (/\ occPhase = "unmounted"
           /\ \E i \in 1..Len(occReads) :
                 occReads[i].answered /\ occReads' # occReads)
          => UNCHANGED occViewState]_vars

\* Nothing is left to happen in Dashboard: it is mounted on an active event, no
\* read is in flight, every change was pushed and every push delivered, and no
\* read failed.
DashQuiescent ==
    /\ dashPhase = "mounted"
    /\ currentEvent # None
    /\ statReads = <<>>
    /\ \A c \in 1..Len(dashChannels) : dashChannels[c].pending = 0
    /\ ~dashMissed
    /\ dashFailures = 0
    /\ dashChanges > 0

\* C4: a notification delivered while a fetchIncidentStats is in flight starts
\* exactly one further fetchIncidentStats, and once every read in flight has
\* resolved, in any order, the stored statistics are those of the latest
\* incident set.
C4_LatestAfterReads ==
    [][/\ (\E c \in 1..Len(dashChannels) :
              /\ dashChannels[c].pending > 0
              /\ dashChannels' = [dashChannels EXCEPT ![c].pending = @ - 1])
          => Len(statReads') = Len(statReads) + 1
       /\ DashQuiescent' => StatsAre(incidentStats', incidentLogs')]_vars

\* Nothing is left to happen in VenueOccupancy: it is mounted on the event it
\* was mounted with, no read is in flight, every change of that event was
\* pushed and delivered, only latest records were updated and no read failed.
OccQuiescent ==
    /\ occPhase = "mounted"
    /\ occKey # None
    /\ occKeyChanges = 0
    /\ occReads = <<>>
    /\ \A c \in 1..Len(occChannels) : occChannels[c].queue = <<>>
    /\ ~occMissed
    /\ ~occOldUpdated
    /\ occFailures = 0

RefLatestCount(rows) ==
    IF rows = <<>> THEN 0
    ELSE LET last == CHOOSE i \in 1..Len(rows) :
                        \A j \in 1..Len(rows) : rows[j].timestamp <= rows[i].timestamp
         IN  rows[last].count

\* C5: once every read in flight has resolved and every INSERT/UPDATE
\* notification has been delivered, in any interleaving, the displayed count is
\* the count of the latest attendance record of the bound event, or 0 when the
\* event has none.
C5_CountIsLatest ==
    OccQuiescent => currentCount = RefLatestCount(attendance[occKey[1]])

(***************************************************************************)
(* Claims about the occupancy panel                                        *)
(***************************************************************************)

PanelShown == ~loading /\ occKey # None

\* pct is a nearest integer of 100 * count / capacity
NearestPercent(pct, count, capacity) ==
    /\ 2 * (100 * count - pct * capacity) <= capacity
    /\ 2 * (pct * capacity - 100 * count) <= capacity

RefTier(count, capacity) ==
    IF count > capacity THEN "over"
    ELSE IF 10 * count >= 9 * capacity THEN "warning"
    ELSE "normal"

TierOf(color) ==
    IF color = Some("#ef4444") THEN "over"
    ELSE IF color = Some("#f97316") THEN "warning"
    ELSE "normal"

\* C11: for count >= 0 and capacity > 0 the panel shows the percentage
\* 100 * count / capacity rounded to a nearest integer and not clamped, a bar
\* of width min(percentage, 100), the normal tier below 90% of capacity, the
\* warning tier from 90% to 100% inclusive, and the over-capacity tier and flag
\* exactly when count > capacity; 3500/3500 gives 100%, warning, bar 100 and
\* 4000/3500 gives 114%, bar 100, over capacity.
C11_PanelValues ==
    (PanelShown /\ currentCount >= 0 /\ venueCapacity > 0) =>
        \A out \in OccShown :
            /\ out.bar
            /\ NearestPercent(out.percentage[1], currentCount, venueCapacity)
            /\ out.width = Some(Min2(out.percentage[1], 100))
            /\ TierOf(out.color) = RefTier(currentCount, venueCapacity)
            /\ out.overCapacity = (currentCount > venueCapacity)
            /\ (currentCount = 3500 /\ venueCapacity = 3500) =>
                  /\ out.percentage = Some(100) /\ out.width = Some(100)
                  /\ TierOf(out.color) = "warning" /\ ~out.overCapacity
            /\ (currentCount = 4000 /\ venueCapacity = 3500) =>
                  /\ out.percentage = Some(114) /\ out.width = Some(100)
                  /\ TierOf(out.color) = "over" /\ out.overCapacity

C11_Witness ==
    /\ PanelShown
    /\ occReads = <<>>
    /\ currentCount = 4000
    /\ venueCapacity = 3500
    /\ \E out \in OccShown : out.percentage = Some(114) /\ out.width = Some(100)

\* The bound event's capacity column is zero and fetchData has completed
\* without a failed read.
ZeroCapacityRead ==
    /\ occPhase = "mounted"
    /\ occKey # None
    /\ venueCapacityOf[occKey[1]] = Some(0)
    /\ occReads = <<>>
    /\ occFailures = 0
    /\ ~loading

\* C12: when the bound event's capacity read by fetchData is zero, the panel
\* shows neither the bar nor the percentage (and divides by nothing).
C12_ZeroCapacitySuppressed ==
    ZeroCapacityRead =>
        \A out \in OccShown : ~out.bar /\ out.percentage = None

(***************************************************************************)
(* Claims about the timers of TimeCard                                     *)
(***************************************************************************)

\* C18: the clock timer and the refresh timer run from mount; once the view is
\* unmounted every timer it started (clock, countdown, refresh) is cleared, and
\* no timer callback of the view has run after the unmount.
C18_NoTimerOutlivesView ==
    /\ tcPhase = "mounted" => clockTimer /\ refreshTimer
    /\ tcPhase = "unmounted" => ~clockTimer /\ ~refreshTimer /\ countdownTimers = <<>>
    /\ ~tcLateFire

C18_Witness ==
    /\ tcPhase = "unmounted"
    /\ currentTime = ToLocaleTimeString(Instant(20, 0, 0, 500))
    /\ nextEvent # None
    /\ tcReplaced
    /\ cdInput # None

\* C19: at most one countdown timer is active and none while there is no next
\* entry; when the next entry of a mounted view changes, the only active timer
\* afterwards is the one of the new entry and the countdown stored is the one
\* computed for the new entry in that step.
C19_CountdownResets ==
    /\ [](/\ Len(countdownTimers) <= 1
          /\ nextEvent = None => countdownTimers = <<>>)
    /\ [][(tcPhase = "mounted" /\ nextEvent' # nextEvent) =>
            /\ countdownTimers' =
                  IF nextEvent' = None THEN <<>> ELSE << nextEvent'[1].time >>
            /\ nextEvent' # None =>
                  /\ cdInput' # None
                  /\ cdInput'[1].time = nextEvent'[1].time
                  /\ countdown' = calculateCountdown(nextEvent'[1].time, cdInput'[1].now)]_vars

C19_Witness ==
    /\ tcPhase = "mounted"
    /\ tcReplaced
    /\ nextEvent # None
    /\ nextEvent[1].time = <<20, 0, 0>>
    /\ countdownTimers = << <<20, 0, 0>> >>
    /\ selRow = Some(<< Unset, <<18, 0, 0>>, <<20, 0, 0>>, Unset, Unset, Unset >>)

\* C20: when a fetchEventTimings read finds no active event, the schedule list
\* and the next entry do not keep the values computed from the event that was
\* active before: they are empty after the read is handled.
C20_NoEventClearsSchedule ==
    [][\A i \in 1..Len(tcReads) :
          (/\ tcReads[i].answered
           /\ tcReads[i].data = None
           /\ tcReads' = RemoveAt(tcReads, i)) =>
              /\ eventTimings' = <<>>
              /\ nextEvent' = None]_vars

(***************************************************************************)
(* Claims about failed and empty reads                                     *)
(***************************************************************************)

\* The step in which fetchData call i completes
OccCompletes(i) ==
    /\ occReads[i].answered
    /\ occReads' = RemoveAt(occReads, i)

\* C13: when the capacity read fails, or the attendance read fails with an
\* error other than no-rows, fetchData completes (nothing escapes it) with the
\* count 0, the capacity 3500 and loading false.
C13_FailedReadFallsBack ==
    [][\A i \in 1..Len(occReads) :
          (OccCompletes(i) /\ occReads[i].failed) =>
              /\ currentCount' = 0
              /\ venueCapacity' = 3500
              /\ loading' = FALSE]_vars

C13_Witness ==
    /\ occFailures = 1
    /\ occReads = <<>>
    /\ occKey = Some("A")
    /\ venueCapacityOf["A"] = Some(200)
    /\ attendance["A"] # <<>>
    /\ currentCount = 0
    /\ venueCapacity = 3500
    /\ ~loading

\* The step in which fetchIncidentStats call i completes
StatsCompletes(i) ==
    /\ statReads[i].answered
    /\ statReads' = RemoveAt(statReads, i)

\* C14: when a read of fetchIncidentStats has failed, the call completes with
\* every incident statistics bucket at zero.
C14_FailedStatsReadFallsBack ==
    [][\A i \in 1..Len(statReads) :
          (StatsCompletes(i) /\ statReads[i].failed) =>
              incidentStats' = InitialStats]_vars

\* C15: when the attendance read reports no rows, fetchData completes with the
\* count 0, the capacity as it was (the event's capacity when the event has
\* one) and loading false.
C15_NoRecordsIsZero ==
    [][\A i \in 1..Len(occReads) :
          (/\ OccCompletes(i)
           /\ occReads[i].pc = "attendance"
           /\ ~occReads[i].failed
           /\ occReads[i].data = None) =>
              /\ currentCount' = 0
              /\ venueCapacity' = venueCapacity
              /\ venueCapacityOf[occReads[i].key] \notin { None, Some(0) } =>
                    venueCapacity' = venueCapacityOf[occReads[i].key][1]
              /\ loading' = FALSE]_vars

C15_Witness ==
    /\ occFailures = 0
    /\ occReads = <<>>
    /\ occKey = Some("A")
    /\ attendance["A"] = <<>>
    /\ venueCapacityOf["A"] = Some(200)
    /\ currentCount = 0
    /\ venueCapacity = 200
    /\ ~loading

(***************************************************************************)
(* Claims about idle views                                                 *)
(***************************************************************************)

\* C16: while the key of a mounted VenueOccupancy is null and no fetchData is
\* under way, the view shows "No event selected", not the loading skeleton.
C16_NullKeyShowsNoEvent ==
    (occPhase = "mounted" /\ occKey = None /\ occReads = <<>>) =>
        OccShown = Placeholder("no event")

UnsubscribeCalled(ch) == ch.st \in { "leaving", "closed" }

\* C17: after Dashboard is unmounted, and after VenueOccupancy is unmounted or
\* while its key is null, the view's channel slot is empty and unsubscribe has
\* been called on every channel the view opened.
C17_IdleHoldsNoChannel ==
    /\ dashPhase = "unmounted" =>
          /\ dashSubscriptionRef = None
          /\ \A c \in 1..Len(dashChannels) : UnsubscribeCalled(dashChannels[c])
    /\ (occPhase = "unmounted" \/ (occPhase = "mounted" /\ occKey = None)) =>
          /\ occSubscriptionRef = None
          /\ \A c \in 1..Len(occChannels) : UnsubscribeCalled(occChannels[c])

C17_Witness ==
    /\ dashPhase = "unmounted"
    /\ dashChannels # <<>>
    /\ occPhase = "mounted"
    /\ occKey = None
    /\ occChannels # <<>>
    /\ occChannels[1].st = "leaving"

(***************************************************************************)
(* Claims about the relations between the incident statistics              *)
(***************************************************************************)

\* C21: in every state the stored statistics satisfy
\* open + closed + logged = total, inProgress <= open,
\* ejections <= high <= total and refusals <= total.
C21_BucketRelations ==
    /\ incidentStats.open + incidentStats.closed + incidentStats.logged
          = incidentStats.total
    /\ incidentStats.inProgress <= incidentStats.open
    /\ incidentStats.ejections <= incidentStats.high
    /\ incidentStats.high <= incidentStats.total
    /\ incidentStats.refusals <= incidentStats.total

\* Statistics stored for a closed Sit Rep and a Refusal whose closed flag is
\* missing and which has an action taken.
C21_Witness ==
    /\ lastApplied =
          Some(<< Incident("Sit Rep", Some(TRUE), None),
                  Incident("Refusal", None, Some("Escorted out")) >>)
    /\ incidentStats.total = 2
    /\ incidentStats.open = 1
    /\ incidentStats.inProgress = 1
    /\ incidentStats.logged = 1

(***************************************************************************)
(* Claims about a change of the key of VenueOccupancy                      *)
(***************************************************************************)

\* The key was changed from one event to another, which the view is bound to now.
Rebound(id) ==
    /\ occPhase = "mounted"
    /\ occKey # None
    /\ occKey # Some(id)

\* Call i of fetchData, made for event id, resumes from a read in this step
ResumesFor(i, id) ==
    /\ occReads[i].key = id
    /\ occReads[i].answered
    /\ \/ occReads' = RemoveAt(occReads, i)
       \/ /\ Len(occReads') = Len(occReads)
          /\ occReads'[i].pc # occReads[i].pc

\* Channel c, filtered on event id, delivers a notification in this step
DeliversFor(c, id) ==
    /\ occChannels[c].key = id
    /\ occChannels[c].queue # <<>>
    /\ occChannels' = [occChannels EXCEPT ![c].queue = Tail(@)]

\* C22: once the key has changed from A to B, a fetchData made for A that
\* resumes and a notification of A's channel that is delivered leave the count
\* and the capacity as they are, and when B's reads have completed without
\* supplying a capacity the capacity shown is not A's.
C22_NothingFromPreviousKey ==
    /\ [][\A id \in EventIds :
            Rebound(id) =>
                /\ \A i \in 1..Len(occReads) :
                      ResumesFor(i, id) =>
                          UNCHANGED << currentCount, venueCapacity >>
                /\ \A c \in 1..Len(occChannels) :
                      DeliversFor(c, id) => UNCHANGED currentCount]_vars
    /\ [](\A id \in EventIds :
            (/\ Rebound(id)
             /\ occReads = <<>>
             /\ occFailures = 0
             /\ venueCapacityOf[occKey[1]] = None
             /\ venueCapacityOf[id] # None) =>
                venueCapacity # venueCapacityOf[id][1])

====
